---- MODULE Spec2Model ----
(***************************************************************************)
(* The Skyjo round engine of skyjoliance/model.py as a state machine.      *)
(*                                                                         *)
(* A card is a record [id, state]: id stands for the identity of the       *)
(* Python Card object (the engine never reads Card.value), state is its    *)
(* CardState.  A grid is a record [rows, cols, cards] whose cards are      *)
(* indexed 0 .. rows*cols-1 exactly as GridOfCards._cards; None is the     *)
(* record NoCard, and a player without a grid holds NoGrid.  Lists are     *)
(* sequences whose last element is the top of the stack (list.pop()).      *)
(*                                                                         *)
(* Every public method of Round is one action.  A method that raises is    *)
(* an action too: it leaves the mutations done before the raise and        *)
(* records the exception in last_call.                                     *)
(***************************************************************************)
EXTENDS Integers, Sequences, FiniteSets, TLC

\* ------------------------------------------------------ program constants
\* len(generate_deck()).
FullDeckSize == 150
\* The columns of the default configuration (3, 4).
DefaultCols == 4
\* The players of test_full_skyjo_game.
TestPlayers == 3

\* ---------------------------------------------------------------- bounds
\* Cards of the deck beyond those the deal takes.
ExtraCards == 2
\* Calls of the methods of Round in one behaviour of a round with one-column
\* grids; each further column takes one call off (see Budget).
MaxCalls == 5

\* The rounds explored, as <<number of players, configuration>>: what the caller
\* passes to Round(players) and to distribute_cards(configuration).  The grids
\* have the 3 rows of the default configuration (3, 4), the only number of rows
\* pick_column supports, and fewer columns.
Tables == {<<2, <<3, 1>>>>, <<1, <<3, 2>>>>}

\* The size of the deck of a round of n players that deals configuration.
DeckSize(n, configuration) == n * configuration[1] * configuration[2] + 1 + ExtraCards

\* ------------------------------------------------------------------ cards
FACE_UP == "face_up"
FACE_DOWN == "face_down"

AWAITING_DISTRIBUTION == "awaiting_distribution"
AWAITING_TWO_CARDS_REVEAL == "awaiting_two_cards_reveal"
ONGOING == "ongoing"
LAST_TURN == "last_turn"
ENDED == "ended"

DRAW_FROM_DECK == "draw_from_deck"
DRAW_FROM_DISCARD == "draw_from_discard"
DISCARD_DRAWN_CARD_AND_REVEAL == "discard_drawn_card_and_reveal"
REPLACE_CARD_IN_GRID == "replace_card_in_grid"
\* A value a strategy returns that is no member of the enumeration.
UNKNOWN_DECISION == "unknown"

\* Exceptions; OK is a normal return.
OK == "ok"
IndexError == "IndexError"
ValueError == "ValueError"
AttributeError == "AttributeError"
CardPositionError == "CardPositionError"
CardStateError == "CardStateError"
ImpossibleGameStateError == "ImpossibleGameStateError"

\* None, as a card and as an index.
NoCard == [id |-> 0, state |-> "none"]
None == -1

Card(i, s) == [id |-> i, state |-> s]

\* flip that leaves the card as it is.
flip_ignored(card, new_state) == card

\* Card.flip(new_state)
flip(card, new_state) == [card EXCEPT !.state = new_state]

\* generate_deck, for a deck of the given size: face-down cards, the card at
\* list index i-1 being the one with id i (the ids name the cards in shuffled
\* order).
generate_deck(size) == [i \in 1 .. size |-> Card(i, FACE_DOWN)]

\* ------------------------------------------------------------ GridOfCards
NoGrid == [rows |-> 0, cols |-> 0, cards |-> [i \in {} |-> NoCard]]

\* GridOfCards.__init__
GridOfCards(rows, cols) ==
    [rows |-> rows, cols |-> cols, cards |-> [i \in 0 .. rows * cols - 1 |-> NoCard]]

\* _get_index raises IndexError exactly when this is FALSE.
InRange(g, row, col) == row >= 0 /\ row < g.rows /\ col >= 0 /\ col < g.cols

_get_index(g, row, col) == row * g.cols + col

\* reveal_card: [err, grid]
reveal_card(g, row, col) ==
    IF ~InRange(g, row, col) THEN [err |-> IndexError, grid |-> g]
    ELSE LET index == _get_index(g, row, col)
             card == g.cards[index]
         IN  IF card = NoCard THEN [err |-> CardPositionError, grid |-> g]
             ELSE IF card.state = FACE_UP THEN [err |-> CardStateError, grid |-> g]
             ELSE [err |-> OK,
                   grid |-> [g EXCEPT !.cards[index] = flip(card, FACE_UP)]]

\* pick_card: [err, grid, card]
pick_card(g, row, col) ==
    IF ~InRange(g, row, col) THEN [err |-> IndexError, grid |-> g, card |-> NoCard]
    ELSE LET index == _get_index(g, row, col)
             card == g.cards[index]
         IN  IF card = NoCard
             THEN [err |-> CardPositionError, grid |-> g, card |-> NoCard]
             ELSE [err |-> OK, grid |-> [g EXCEPT !.cards[index] = NoCard],
                   card |-> card]

\* place_card: [err, grid]
place_card(g, row, col, card) ==
    IF ~InRange(g, row, col) THEN [err |-> IndexError, grid |-> g]
    ELSE LET index == _get_index(g, row, col)
         IN  IF g.cards[index] # NoCard THEN [err |-> CardPositionError, grid |-> g]
             ELSE [err |-> OK, grid |-> [g EXCEPT !.cards[index] = card]]

\* replace_card that picks the old card and places none.
replace_card_not_placed(g, position, card) == pick_card(g, position[1], position[2])

\* replace_card: [err, grid, card]
replace_card(g, position, card) ==
    LET row == position[1]
        col == position[2]
        picked == pick_card(g, row, col)
    IN  IF picked.err # OK THEN picked
        ELSE LET placed == place_card(picked.grid, row, col, card)
             IN  [err |-> placed.err, grid |-> placed.grid, card |-> picked.card]

\* pick_column: [err, grid, cards]; the cards in row order 0, 1, 2.
RECURSIVE pick_column_rows(_, _, _)
pick_column_rows(g, col, row) ==
    IF row = 3 THEN [err |-> OK, grid |-> g, cards |-> <<>>]
    ELSE LET picked == pick_card(g, row, col)
         IN  IF picked.err # OK
             THEN [err |-> picked.err, grid |-> picked.grid, cards |-> <<>>]
             ELSE LET rest == pick_column_rows(picked.grid, col, row + 1)
                  IN  [rest EXCEPT !.cards = <<picked.card>> \o @]

\* pick_column that returns the cards from the bottom row up.
pick_column_bottom_up(g, col) ==
    IF g.rows # 3 THEN [err |-> ValueError, grid |-> g, cards |-> <<>>]
    ELSE LET picked == pick_column_rows(g, col, 0)
         IN  [picked EXCEPT !.cards = [row \in DOMAIN @ |-> @[Len(@) + 1 - row]]]

pick_column(g, col) ==
    IF g.rows # 3 THEN [err |-> ValueError, grid |-> g, cards |-> <<>>]
    ELSE pick_column_rows(g, col, 0)

\* The test of the loop body of identify_any_complete_column for one column.
ColumnToDiscard(g, col) ==
    /\ \A row \in 0 .. g.rows - 1 : g.cards[_get_index(g, row, col)] # NoCard
    /\ \A row \in 0 .. g.rows - 1 : g.cards[_get_index(g, row, col)].state = FACE_UP

cols_to_discard(g) == {col \in 0 .. g.cols - 1 : ColumnToDiscard(g, col)}

\* identify_any_complete_column that never finds a column.
identify_no_column(g) == [err |-> OK, col |-> None]

\* identify_any_complete_column: [err, col]; col is None when there is none.
identify_any_complete_column(g) ==
    LET found == cols_to_discard(g)
    IN  IF Cardinality(found) = 0 THEN [err |-> OK, col |-> None]
        ELSE IF Cardinality(found) = 1
             THEN [err |-> OK, col |-> CHOOSE col \in found : TRUE]
             ELSE [err |-> ImpossibleGameStateError, col |-> None]

\* all_cards_revealed that takes an empty cell for a card not revealed.
all_cards_revealed_strict(g) ==
    \A i \in DOMAIN g.cards : g.cards[i] # NoCard /\ g.cards[i].state = FACE_UP

\* GridOfCards.all_cards_revealed
all_cards_revealed(g) ==
    \A i \in DOMAIN g.cards : g.cards[i] = NoCard \/ g.cards[i].state = FACE_UP

\* ----------------------------------------------------------------- Player
\* Player.place_distributed_cards: [err, grid]
RECURSIVE place_hand(_, _, _, _)
place_hand(g, cards, cols, i) ==
    IF i >= Len(cards) THEN [err |-> OK, grid |-> g]
    ELSE LET row == i \div cols
             col == i % cols
             placed == place_card(g, row, col, cards[i + 1])
         IN  IF placed.err # OK THEN placed
             ELSE place_hand(placed.grid, cards, cols, i + 1)

\* g is the grid the player holds when the method is called (NoGrid for none):
\* the method reads it nowhere, and a raise on the number of cards leaves it.
place_distributed_cards(g, cards, configuration) ==
    LET rows == configuration[1]
        cols == configuration[2]
    IN  IF Len(cards) # rows * cols
        THEN [err |-> ImpossibleGameStateError, grid |-> g]
        ELSE place_hand(GridOfCards(rows, cols), cards, cols, 0)

\* Player.play_card: [err, grid, discarded]; grid is the grid as the call leaves
\* it, also when it raises.
play_card(g, drawn_card, play_action) ==
    IF g = NoGrid
    THEN [err |-> ImpossibleGameStateError, grid |-> g, discarded |-> <<>>]
    ELSE
    LET row == play_action.target_position[1]
        col == play_action.target_position[2]
        acted ==
            IF play_action.action = DISCARD_DRAWN_CARD_AND_REVEAL
            THEN LET revealed == reveal_card(g, row, col)
                 IN  [err |-> revealed.err, grid |-> revealed.grid,
                      card |-> drawn_card]
            ELSE IF play_action.action = REPLACE_CARD_IN_GRID
            THEN replace_card(g, <<row, col>>, drawn_card)
            ELSE [err |-> ValueError, grid |-> g, card |-> NoCard]
    IN  IF acted.err # OK
        THEN [err |-> acted.err, grid |-> acted.grid, discarded |-> <<>>]
        ELSE
        LET complete_column == identify_any_complete_column(acted.grid)
        IN  IF complete_column.err # OK
            THEN [err |-> complete_column.err, grid |-> acted.grid,
                  discarded |-> <<>>]
            ELSE IF complete_column.col = None
            THEN [err |-> OK, grid |-> acted.grid, discarded |-> <<acted.card>>]
            ELSE
            LET column == pick_column(acted.grid, complete_column.col)
            IN  IF column.err # OK
                THEN [err |-> column.err, grid |-> column.grid, discarded |-> <<>>]
                ELSE [err |-> OK, grid |-> column.grid,
                      discarded |-> <<acted.card>> \o column.cards]

\* Player.all_cards_revealed (NoGrid raises; the engine calls it only after
\* play_card returned, so with a grid).
player_all_cards_revealed(g) == all_cards_revealed(g)

\* ------------------------------------------------------------------ Round
VARIABLES
    players,                        \* players[i+1]: the grid of player i, or NoGrid
    current_player_index,
    cards_deck,
    discard_pile,
    state,
    player_who_triggered_last_turn, \* None or a player index
    last_call,                      \* the latest call: [op, err]
    plays,                          \* plays[i+1]: calls of make_current_player_play
                                    \* made with player i as the current player
    calls,                          \* calls of the methods of Round so far
    raised,                         \* [calls, reveals]: the calls that raised so
                                    \* far, and those of them that raised inside
                                    \* the loop of make_player_reveal_two_cards
    callbacks,                      \* the strategy callbacks of the latest call:
                                    \* [made, drawn_card, played_card]
    rng                             \* the generator that shuffles the deck:
                                    \* [seed, i], i the index the loop of
                                    \* shuffle is at, 0 when the deck is shuffled

vars == <<players, current_player_index, cards_deck, discard_pile, state,
          player_who_triggered_last_turn, last_call, plays, calls, raised,
          callbacks, rng>>

N == Len(players)

Max(S) == CHOOSE x \in S : \A y \in S : y <= x

RECURSIVE SumSeq(_)
SumSeq(s) == IF s = <<>> THEN 0 ELSE Head(s) + SumSeq(Tail(s))

Turns == SumSeq(plays)

\* list[:] instead of the list after pop(): the card is read, not removed.
Peek(list) == list

\* list.pop() leaves this.
Pop(list) == SubSeq(list, 1, Len(list) - 1)
Top(list) == list[Len(list)]

\* A call of op that returned (err = OK) or raised err.
Called(op, err) ==
    /\ UNCHANGED rng
    /\ last_call' = [op |-> op, err |-> err]
    /\ calls' = calls + 1
    /\ raised' = [calls |-> raised.calls + (IF err # OK THEN 1 ELSE 0),
                  reveals |-> raised.reveals +
                      (IF op = "reveal_two" /\ err # OK
                          /\ state = AWAITING_TWO_CARDS_REVEAL THEN 1 ELSE 0)]

\* The latest call made this many strategy callbacks, drew drawn_card from a
\* list (NoCard when it drew none) and handed played_card to play_card after
\* decide_play returned (NoCard when it did not get there).
Consulted(made, drawn_card, played_card) ==
    callbacks' = [made |-> made, drawn_card |-> drawn_card,
                  played_card |-> played_card]

\* The latest call made no strategy callback.
NotConsulted == Consulted(0, NoCard, NoCard)

\* Round(players) with the given number of players and deck.
NewRound(n, deck) ==
    /\ players = [i \in 1 .. n |-> NoGrid]
    /\ current_player_index = 0
    /\ cards_deck = deck
    /\ discard_pile = <<>>
    /\ state = AWAITING_DISTRIBUTION
    /\ player_who_triggered_last_turn = None
    /\ last_call = [op |-> "new", err |-> OK]
    /\ plays = [i \in 1 .. n |-> 0]
    /\ calls = 0
    /\ raised = [calls |-> 0, reveals |-> 0]
    /\ callbacks = [made |-> 0, drawn_card |-> NoCard, played_card |-> NoCard]
    /\ rng = [seed |-> 0, i |-> 0]

Init == \E table \in Tables : NewRound(table[1], generate_deck(DeckSize(table[1], table[2])))

\* next_player without the wrap-around.
next_player_unwrapped ==
    /\ current_player_index' = current_player_index + 1
    /\ Called("next_player", OK)
    /\ NotConsulted
    /\ UNCHANGED <<players, cards_deck, discard_pile, state,
                   player_who_triggered_last_turn, plays>>

\* Round.next_player
next_player ==
    /\ current_player_index' = (current_player_index + 1) % N
    /\ Called("next_player", OK)
    /\ NotConsulted
    /\ UNCHANGED <<players, cards_deck, discard_pile, state,
                   player_who_triggered_last_turn, plays>>

\* The configurations a caller passes to distribute_cards in a round of n
\* players.
Configurations(n) == {table[2] : table \in {t \in Tables : t[1] = n}}

\* The hand of player j after the dealing loops of distribute_cards: the
\* (i*N + j)-th popped card, i = 0 .. cards_per_player - 1.
Popped(deck, k) == deck[Len(deck) - k]

\* The hand of player j dealt as a contiguous block of the deck.
hand_in_blocks(deck, n, cards_per_player, j) ==
    [i \in 1 .. cards_per_player |-> Popped(deck, j * cards_per_player + (i - 1))]

hand(deck, n, cards_per_player, j) ==
    [i \in 1 .. cards_per_player |-> Popped(deck, (i - 1) * n + j)]

\* distribute_cards without its guards.
distribute_unguarded(ps, st) == OK

\* The two guards of distribute_cards: the exception they raise, or OK.
distribute_guard(ps, st) ==
    IF \E j \in 1 .. Len(ps) : ps[j] # NoGrid THEN ValueError
    ELSE IF st # AWAITING_DISTRIBUTION THEN ImpossibleGameStateError
    ELSE OK

\* Round.distribute_cards
distribute_cards(configuration) ==
    LET cards_per_player == configuration[1] * configuration[2]
        dealt == N * cards_per_player
        grids == [j \in 1 .. N |->
                    place_distributed_cards(
                        players[j], hand(cards_deck, N, cards_per_player, j - 1),
                        configuration)]
        left == SubSeq(cards_deck, 1, Len(cards_deck) - dealt)
    IN
    /\ UNCHANGED <<current_player_index, player_who_triggered_last_turn, plays>>
    /\ NotConsulted
    /\ IF distribute_guard(players, state) # OK
       THEN /\ Called("distribute", distribute_guard(players, state))
            /\ UNCHANGED <<players, cards_deck, discard_pile, state>>
       ELSE IF Len(cards_deck) < dealt
       THEN \* pop from the empty list: the popped hands are dropped
            /\ Called("distribute", IndexError)
            /\ cards_deck' = <<>>
            /\ UNCHANGED <<players, discard_pile, state>>
       ELSE IF \E j \in 1 .. N : grids[j].err # OK
       THEN LET bad == CHOOSE j \in 1 .. N :
                          /\ grids[j].err # OK
                          /\ \A k \in 1 .. j - 1 : grids[k].err = OK
            IN  /\ Called("distribute", grids[bad].err)
                /\ cards_deck' = left
                /\ players' = [j \in 1 .. N |->
                                 IF j <= bad THEN grids[j].grid ELSE players[j]]
                /\ UNCHANGED <<discard_pile, state>>
       ELSE IF left = <<>>
       THEN /\ Called("distribute", IndexError)
            /\ cards_deck' = left
            /\ players' = [j \in 1 .. N |-> grids[j].grid]
            /\ UNCHANGED <<discard_pile, state>>
       ELSE /\ Called("distribute", OK)
            /\ cards_deck' = Pop(left)
            /\ players' = [j \in 1 .. N |-> grids[j].grid]
            /\ discard_pile' = Append(discard_pile, flip(Top(left), FACE_UP))
            /\ state' = AWAITING_TWO_CARDS_REVEAL

\* The positions a strategy may return for a grid: every cell of the grid, and
\* one position outside it in each direction.
Positions(g) ==
    ((0 .. g.rows - 1) \X (0 .. g.cols - 1)) \cup {<<g.rows, 0>>, <<0, 0 - 1>>}

\* The pairs of positions decide_reveal_two_cards may return for a grid.
PositionPairs(g) == Positions(g) \X Positions(g)

\* The inner loop of make_player_reveal_two_cards for one player, the strategy
\* having returned positions: [err, grid].
reveal_positions(g, positions) ==
    IF g = NoGrid THEN [err |-> AttributeError, grid |-> g]
    ELSE
    LET first == reveal_card(g, positions[1][1], positions[1][2])
    IN  IF first.err # OK THEN first
        ELSE reveal_card(first.grid, positions[2][1], positions[2][2])

\* The outer loop of make_player_reveal_two_cards from player j on (0-based),
\* decidable[j+1] being the pairs decide_reveal_two_cards of player j may
\* return: the set of the [err, players, made] the loop can end with, made being
\* the calls of decide_reveal_two_cards.  It stops at the first raise.
RECURSIVE reveal_from(_, _, _)
reveal_from(ps, j, decidable) ==
    IF j >= Len(ps) THEN {[err |-> OK, players |-> ps, made |-> j]}
    ELSE
    LET revealed == {reveal_positions(ps[j + 1], positions) :
                        positions \in decidable[j + 1]}
    IN  UNION {IF r.err # OK
               THEN {[err |-> r.err, players |-> [ps EXCEPT ![j + 1] = r.grid],
                      made |-> j + 1]}
               ELSE reveal_from([ps EXCEPT ![j + 1] = r.grid], j + 1, decidable) :
               r \in revealed}

\* Round.make_player_reveal_two_cards raising on its guard, before any strategy
\* is consulted.
reveal_two_rejected ==
    /\ state # AWAITING_TWO_CARDS_REVEAL
    /\ Called("reveal_two", ImpossibleGameStateError)
    /\ NotConsulted
    /\ UNCHANGED <<players, current_player_index, cards_deck, discard_pile, state,
                   player_who_triggered_last_turn, plays>>

\* make_player_reveal_two_cards that ends in the state of the last turn.
reveal_two_into_last_turn(revealed) ==
    /\ state = AWAITING_TWO_CARDS_REVEAL
    /\ Called("reveal_two", revealed.err)
    /\ Consulted(revealed.made, NoCard, NoCard)
    /\ players' = revealed.players
    /\ state' = IF revealed.err = OK THEN LAST_TURN ELSE state
    /\ UNCHANGED <<current_player_index, cards_deck, discard_pile,
                   player_who_triggered_last_turn, plays>>

\* Round.make_player_reveal_two_cards past its guard, its loop ending as
\* revealed.
make_player_reveal_two_cards(revealed) ==
    /\ state = AWAITING_TWO_CARDS_REVEAL
    /\ Called("reveal_two", revealed.err)
    /\ Consulted(revealed.made, NoCard, NoCard)
    /\ players' = revealed.players
    /\ state' = IF revealed.err = OK THEN ONGOING ELSE state
    /\ UNCHANGED <<current_player_index, cards_deck, discard_pile,
                   player_who_triggered_last_turn, plays>>

\* make_current_player_play with its guard after the draw from the deck.
play_rejected_after_draw ==
    /\ ~(state = ONGOING \/ state = LAST_TURN)
    /\ Called("play", ImpossibleGameStateError)
    /\ Consulted(1, NoCard, NoCard)
    /\ cards_deck' = Pop(cards_deck)
    /\ UNCHANGED <<players, current_player_index, discard_pile, state,
                   player_who_triggered_last_turn, plays>>

\* Round.make_current_player_play raising on its guard, before any strategy is
\* consulted.
play_rejected ==
    /\ ~(state = ONGOING \/ state = LAST_TURN)
    /\ Called("play", ImpossibleGameStateError)
    /\ NotConsulted
    /\ UNCHANGED <<players, current_player_index, cards_deck, discard_pile, state,
                   player_who_triggered_last_turn, plays>>

\* The test that never starts the last turn.
triggers_last_turn_never(g, st) == FALSE

\* The test without "and self.state != RoundState.LAST_TURN".
triggers_last_turn_again(g, st) == player_all_cards_revealed(g)

\* The test of make_current_player_play that starts the last turn.
triggers_last_turn(g, st) == player_all_cards_revealed(g) /\ st # LAST_TURN

\* What decide_play may do to the drawn card, the one argument it receives that
\* is no copy: leave it, or set its state.
UNTOUCHED == "untouched"
Touches == {UNTOUCHED, FACE_UP, FACE_DOWN}

\* The drawn card after decide_play returned.
touched(drawn_card, touch) ==
    IF touch = UNTOUCHED THEN drawn_card ELSE flip(drawn_card, touch)

\* Round.make_current_player_play past its guard, decide_draw returning
\* draw_action and decide_play returning play_action after touch.
make_current_player_play(draw_action, touch, play_action) ==
    LET current_player == players[current_player_index + 1]
        source == IF draw_action = DRAW_FROM_DECK THEN cards_deck ELSE discard_pile
        drawn_card == touched(Top(source), touch)
        deck_left == IF draw_action = DRAW_FROM_DECK THEN Pop(cards_deck)
                     ELSE cards_deck
        pile_left == IF draw_action = DRAW_FROM_DISCARD THEN Pop(discard_pile)
                     ELSE discard_pile
        played == play_card(current_player, drawn_card, play_action)
    IN
    /\ state = ONGOING \/ state = LAST_TURN
    /\ UNCHANGED current_player_index
    /\ plays' = [plays EXCEPT ![current_player_index + 1] = @ + 1]
    /\ IF draw_action \notin {DRAW_FROM_DECK, DRAW_FROM_DISCARD}
       THEN /\ Called("play", ImpossibleGameStateError)
            /\ Consulted(1, NoCard, NoCard)
            /\ UNCHANGED <<players, cards_deck, discard_pile, state,
                           player_who_triggered_last_turn>>
       ELSE IF source = <<>>
       THEN /\ Called("play", IndexError)
            /\ Consulted(1, NoCard, NoCard)
            /\ UNCHANGED <<players, cards_deck, discard_pile, state,
                           player_who_triggered_last_turn>>
       ELSE
       /\ Called("play", played.err)
       /\ Consulted(2, Top(source), drawn_card)
       /\ cards_deck' = deck_left
       /\ players' = [players EXCEPT ![current_player_index + 1] = played.grid]
       /\ IF played.err # OK
          THEN /\ discard_pile' = pile_left
               /\ UNCHANGED <<state, player_who_triggered_last_turn>>
          ELSE /\ discard_pile' = pile_left \o played.discarded
               /\ IF triggers_last_turn(played.grid, state)
                  THEN /\ state' = LAST_TURN
                       /\ player_who_triggered_last_turn' = current_player_index
                  ELSE UNCHANGED <<state, player_who_triggered_last_turn>>

\* What the strategies of this specification may return.
DrawDecisions == {DRAW_FROM_DECK, DRAW_FROM_DISCARD, UNKNOWN_DECISION}
PlayDecisions == {DISCARD_DRAWN_CARD_AND_REVEAL, REPLACE_CARD_IN_GRID,
                  UNKNOWN_DECISION}

\* The calls explored in a round of n players: the wider its grids, the fewer.
Budget(n) == MaxCalls + 1 - Max({configuration[2] : configuration \in Configurations(n)})

Distribute ==
    /\ calls < Budget(N)
    /\ \E configuration \in Configurations(N) : distribute_cards(configuration)

RevealTwo ==
    /\ calls < Budget(N)
    /\ \/ reveal_two_rejected
       \/ /\ state = AWAITING_TWO_CARDS_REVEAL
          /\ \E revealed \in reveal_from(players, 0,
                                         [j \in 1 .. N |-> PositionPairs(players[j])]) :
                make_player_reveal_two_cards(revealed)

PlayTurn ==
    /\ calls < Budget(N)
    /\ \/ play_rejected
       \/ /\ state = ONGOING \/ state = LAST_TURN
          /\ \E draw_action \in DrawDecisions, action \in PlayDecisions :
                \E target_position \in Positions(players[current_player_index + 1]) :
                    make_current_player_play(
                        draw_action, UNTOUCHED,
                        [action |-> action, target_position |-> target_position])

NextPlayer ==
    /\ calls < Budget(N)
    /\ next_player

Next == Distribute \/ RevealTwo \/ PlayTurn \/ NextPlayer

Spec == Init /\ [][Next]_vars

\* ------------------------------------------------------- the driving loop
\* test_full_skyjo_game: distribute_cards(); make_player_reveal_two_cards();
\* while state != LAST_TURN: make_current_player_play(); next_player().  A call
\* that raises ends the loop.  decidable and playable are what the strategies
\* may return, configurations what distribute_cards is called with.
LoopDistribute(configurations) ==
    /\ last_call.op = "new"
    /\ \E configuration \in configurations : distribute_cards(configuration)

LoopRevealTwo(decidable) ==
    /\ last_call = [op |-> "distribute", err |-> OK]
    /\ \E revealed \in reveal_from(players, 0, decidable) :
           make_player_reveal_two_cards(revealed)

LoopPlayTurn(drawable, playable) ==
    /\ last_call \in {[op |-> "reveal_two", err |-> OK],
                      [op |-> "next_player", err |-> OK]}
    /\ state # LAST_TURN
    /\ \E draw_action \in drawable, play_action \in playable :
           make_current_player_play(draw_action, UNTOUCHED, play_action)

LoopNextPlayer ==
    /\ last_call = [op |-> "play", err |-> OK]
    /\ next_player

\* The cells of a grid that hold a card, and those that hold a face-down card,
\* as positions.
PresentPositions(g) ==
    {position \in (0 .. g.rows - 1) \X (0 .. g.cols - 1) :
        g.cards[_get_index(g, position[1], position[2])] # NoCard}

FaceDownPositions(g) ==
    {position \in PresentPositions(g) :
        g.cards[_get_index(g, position[1], position[2])].state = FACE_DOWN}

\* --- the deterministic strategy of the end-to-end property
\* The face-down position of the lowest index among positions.
LowestIndex(g, positions) ==
    CHOOSE position \in positions :
        \A other \in positions :
            _get_index(g, position[1], position[2]) <= _get_index(g, other[1], other[2])

\* "reveal the two lowest-index face-down cells initially"
lowest_two_face_down(g) ==
    LET first == LowestIndex(g, FaceDownPositions(g))
    IN  <<first, LowestIndex(g, FaceDownPositions(g) \ {first})>>

\* "always discard-and-reveal the lowest-index remaining face-down cell"; with no
\* face-down cell left it answers the first cell.
reveal_lowest_face_down(g) ==
    [action |-> DISCARD_DRAWN_CARD_AND_REVEAL,
     target_position |-> IF FaceDownPositions(g) = {} THEN <<0, 0>>
                         ELSE LowestIndex(g, FaceDownPositions(g))]

\* The rounds of the deterministic loop: up to the three players and the four
\* columns of the full game, with the full deck.
DeterministicTables ==
    {<<n, <<3, cols>>>> : n \in 1 .. TestPlayers, cols \in 1 .. DefaultCols}

InitDeterministic ==
    \E table \in DeterministicTables : NewRound(table[1], generate_deck(FullDeckSize))

DeterministicDistribute == LoopDistribute({<<3, cols>> : cols \in 1 .. DefaultCols})

DeterministicRevealTwo ==
    LoopRevealTwo([j \in 1 .. N |-> {lowest_two_face_down(players[j])}])

DeterministicPlayTurn ==
    LoopPlayTurn({DRAW_FROM_DECK},
                 {reveal_lowest_face_down(players[current_player_index + 1])})

NextDeterministic ==
    \/ DeterministicDistribute
    \/ DeterministicRevealTwo
    \/ DeterministicPlayTurn
    \/ LoopNextPlayer

SpecDeterministic == InitDeterministic /\ [][NextDeterministic]_vars

\* --- RandomSkyjoStrategy
\* decide_draw: choice(list(DrawDecision))
random_decide_draw == {DRAW_FROM_DECK, DRAW_FROM_DISCARD}

\* decide_play: a random action and a random position among the possible ones
\* of that action.  choice() of an empty list raises IndexError inside
\* make_current_player_play, after the draw: that is what the position <<-1, -1>>
\* does, which every grid rejects with IndexError.
random_decide_play(g) ==
    LET targets(action, possible_positions) ==
            {[action |-> action, target_position |-> position] :
                position \in IF possible_positions = {} THEN {<<0 - 1, 0 - 1>>}
                             ELSE possible_positions}
    IN  targets(DISCARD_DRAWN_CARD_AND_REVEAL, FaceDownPositions(g))
            \cup targets(REPLACE_CARD_IN_GRID, PresentPositions(g))

\* decide_reveal_two_cards: sample(possible_positions, 2)
random_decide_reveal_two_cards(g) ==
    {positions \in FaceDownPositions(g) \X FaceDownPositions(g) :
        positions[1] # positions[2]}

\* The round of the random loop: the three players of the test, one-column
\* grids, and a deck of ExtraCards cards after the deal.
RandomTable == <<TestPlayers, <<3, 1>>>>

InitRandom ==
    NewRound(RandomTable[1], generate_deck(DeckSize(RandomTable[1], RandomTable[2])))

\* The calls explored in the random loop: the two that set the round up, and the
\* turns (each with its next_player) that can empty the deck, and one more.
RandomBudget == 2 + 2 * ExtraCards + 1

RandomDistribute ==
    /\ calls < RandomBudget
    /\ LoopDistribute({RandomTable[2]})

RandomRevealTwo ==
    /\ calls < RandomBudget
    /\ LoopRevealTwo([j \in 1 .. N |-> random_decide_reveal_two_cards(players[j])])

RandomPlayTurn ==
    /\ calls < RandomBudget
    /\ LoopPlayTurn(random_decide_draw,
                    random_decide_play(players[current_player_index + 1]))

RandomNextPlayer ==
    /\ calls < RandomBudget
    /\ LoopNextPlayer

NextRandom == RandomDistribute \/ RandomRevealTwo \/ RandomPlayTurn \/ RandomNextPlayer

SpecRandom == InitRandom /\ [][NextRandom]_vars

\* --- strategies that touch the drawn card
\* The round of Spec with a decide_play that may set the state of the drawn
\* card it is handed before it returns.
PlayTurnTouching ==
    /\ calls < Budget(N)
    /\ \/ play_rejected
       \/ /\ state = ONGOING \/ state = LAST_TURN
          /\ \E draw_action \in DrawDecisions, action \in PlayDecisions :
                \E target_position \in Positions(players[current_player_index + 1]) :
                    \E touch \in Touches :
                        make_current_player_play(
                            draw_action, touch,
                            [action |-> action, target_position |-> target_position])

NextTouching == Distribute \/ RevealTwo \/ PlayTurnTouching \/ NextPlayer

SpecTouching == Init /\ [][NextTouching]_vars

\* ---------------------------------------------------------- generate_deck
\* The seeds generate_deck is called with: 0 .. MaxSeed.
MaxSeed == 2
Seeds == 0 .. MaxSeed

\* [value] * count
Repeat(value, count) == [k \in 1 .. count |-> value]

\* for i in range(first, last): deck += [i] * 10
RECURSIVE ranks(_, _)
ranks(first, last) ==
    IF first >= last THEN <<>> ELSE Repeat(first, 10) \o ranks(first + 1, last)

\* The list of values generate_deck builds before it makes the cards.
deck_values ==
    Repeat(0 - 2, 5) \o Repeat(0 - 1, 10) \o Repeat(0, 15) \o ranks(1, 13)

\* deck = [Card(value=v) for v in deck]: the card with id i is the i-th card
\* made, face-down, and value is its Card.value.  (generate_deck(size) above
\* names the cards of a shuffled deck by their places instead.)
unshuffled_deck == [i \in 1 .. Len(deck_values) |-> Card(i, FACE_DOWN)]
value(card) == deck_values[card.id]

\* The index Random(seed) answers when shuffle asks for one below bound at
\* step i.  The generator is library code; this one stands for it, each seed
\* giving a sequence of indexes of its own.
randbelow(seed, i, bound) == (seed * 7 + (seed + 1) * i * i + i \div 3) % bound

\* x[i] = x[j] without x[j] = x[i] (0-based indexes).
swap_one_way(x, i, j) == [x EXCEPT ![i + 1] = x[j + 1]]

\* x[i], x[j] = x[j], x[i] (0-based indexes).
swap(x, i, j) == [x EXCEPT ![i + 1] = x[j + 1], ![j + 1] = x[i + 1]]

\* generate_deck(seed) after rng = Random(seed), the fields of the round it is
\* made for as Round(players, cards_deck=deck) will have them.
InitDeck ==
    \E seed \in Seeds :
        /\ players = [i \in 1 .. TestPlayers |-> NoGrid]
        /\ current_player_index = 0
        /\ cards_deck = unshuffled_deck
        /\ discard_pile = <<>>
        /\ state = AWAITING_DISTRIBUTION
        /\ player_who_triggered_last_turn = None
        /\ last_call = [op |-> "new", err |-> OK]
        /\ plays = [i \in 1 .. TestPlayers |-> 0]
        /\ calls = 0
        /\ raised = [calls |-> 0, reveals |-> 0]
        /\ callbacks = [made |-> 0, drawn_card |-> NoCard, played_card |-> NoCard]
        /\ rng = [seed |-> seed, i |-> Len(unshuffled_deck) - 1]

\* One turn of the loop of rng.shuffle(deck):
\* for i in reversed(range(1, len(x))): j = randbelow(i + 1); swap x[i], x[j].
ShuffleStep ==
    /\ rng.i >= 1
    /\ cards_deck' = swap(cards_deck, rng.i, randbelow(rng.seed, rng.i, rng.i + 1))
    /\ rng' = [rng EXCEPT !.i = @ - 1]
    /\ UNCHANGED <<players, current_player_index, discard_pile, state,
                   player_who_triggered_last_turn, last_call, plays, calls, raised,
                   callbacks>>

NextDeck == ShuffleStep

SpecDeck == InitDeck /\ [][NextDeck]_vars

\* ------------------------------------------------- a Player on its own
\* A Player whose methods the caller calls itself, as Round does and as any
\* code holding the Player can.  players is that one player, cards_deck the
\* cards the caller holds; the other fields of the round stay as constructed.
\* The cards of the caller.
PlayerCards == 7

\* The hands and configurations the caller deals: up to PlayerHand cards, into
\* grids of three rows, of three or of two cells.
PlayerHand == 3
PlayerConfigurations == {<<3, 1>>, <<1, 3>>, <<1, 2>>}

InitPlayer == NewRound(1, generate_deck(PlayerCards))

\* The top count cards of a list, in the order they are popped.
TopCards(list, count) == [i \in 1 .. count |-> Popped(list, i - 1)]

\* player.place_distributed_cards(cards, configuration), cards being the top
\* count cards of the caller.
PlayerDeal ==
    \E configuration \in PlayerConfigurations :
        \E count \in 1 .. PlayerHand :
            LET dealt == place_distributed_cards(players[1],
                                                 TopCards(cards_deck, count),
                                                 configuration)
            IN  /\ count <= Len(cards_deck)
                /\ Called("place_distributed_cards", dealt.err)
                /\ NotConsulted
                /\ cards_deck' = SubSeq(cards_deck, 1, Len(cards_deck) - count)
                /\ players' = <<dealt.grid>>
                /\ UNCHANGED <<current_player_index, discard_pile, state,
                               player_who_triggered_last_turn, plays>>

\* player.play_card(drawn_card, play_action), drawn_card being the top card of
\* the caller; the caller keeps what play_card returns.
PlayerPlayCard ==
    /\ cards_deck # <<>>
    /\ \E action \in {DISCARD_DRAWN_CARD_AND_REVEAL, REPLACE_CARD_IN_GRID} :
           \E target_position \in Positions(players[1]) :
               LET played == play_card(players[1], Top(cards_deck),
                                       [action |-> action,
                                        target_position |-> target_position])
               IN  /\ Called("play_card", played.err)
                   /\ NotConsulted
                   /\ cards_deck' = Pop(cards_deck)
                   /\ players' = <<played.grid>>
                   /\ discard_pile' = discard_pile \o played.discarded
                   /\ UNCHANGED <<current_player_index, state,
                                  player_who_triggered_last_turn, plays>>

NextPlayerAlone == PlayerDeal \/ PlayerPlayCard

SpecPlayer == InitPlayer /\ [][NextPlayerAlone]_vars

\* ================================================================ claims
\* The size of the deck the round was constructed with.
InitialDeckSize ==
    LET table == CHOOSE t \in Tables : t[1] = N
    IN  DeckSize(table[1], table[2])

\* How many cards of a list, or cells of a grid, hold the card id.
CountIn(cards, id) == Cardinality({i \in DOMAIN cards : cards[i].id = id})

\* How many places hold the card id: deck, discard pile and grid cells.
Held(id) ==
    CountIn(cards_deck, id) + CountIn(discard_pile, id)
        + SumSeq([j \in 1 .. N |-> CountIn(players[j].cards, id)])

\* The present cells of a grid.
Present(g) == Cardinality({i \in DOMAIN g.cards : g.cards[i] # NoCard})

CardsConserved ==
    /\ \A id \in 1 .. InitialDeckSize : Held(id) = 1
    /\ Len(cards_deck) + Len(discard_pile)
           + SumSeq([j \in 1 .. N |-> Present(players[j])]) = InitialDeckSize

DistributeReturned == last_call = [op |-> "distribute", err |-> OK]

\* C1: as long as no call has raised, after distribute_cards every card of the
\* deck the round started with is in exactly one place (deck, discard pile or a
\* grid cell), and the sizes of the three add up to the size of that deck.
C1_CardConservation ==
    (state # AWAITING_DISTRIBUTION /\ raised.calls = 0) => CardsConserved

\* A turn drew from the deck and cleared a column, no call having raised.
C1_Witness ==
    /\ raised.calls = 0
    /\ last_call.op = "play"
    /\ Len(discard_pile) >= 5
    /\ Len(cards_deck) < ExtraCards

\* C2 (as claimed): after a make_current_player_play that raised because of the
\* position the strategy chose, all earlier calls having returned, the cards are
\* still conserved.
C2_RejectedTurnKeepsTheCards ==
    ( /\ raised.calls = 1
      /\ last_call.op = "play"
      /\ last_call.err \in {IndexError, CardPositionError, CardStateError} )
    => CardsConserved

\* C3: when distribute_cards returns, every player holds a grid of the
\* configuration with every cell present and face-down, the discard pile is one
\* face-up card, the deck is N*rows*cols + 1 cards shorter, and the state is
\* AWAITING_TWO_CARDS_REVEAL.
C3_DistributePostcondition ==
    DistributeReturned =>
        \E configuration \in Configurations(N) :
            LET cells == configuration[1] * configuration[2]
            IN  /\ \A j \in 1 .. N :
                       /\ players[j].rows = configuration[1]
                       /\ players[j].cols = configuration[2]
                       /\ DOMAIN players[j].cards = 0 .. cells - 1
                       /\ \A i \in 0 .. cells - 1 :
                              /\ players[j].cards[i] # NoCard
                              /\ players[j].cards[i].state = FACE_DOWN
                /\ Len(discard_pile) = 1
                /\ discard_pile[1].state = FACE_UP
                /\ Len(cards_deck) = InitialDeckSize - (N * cells + 1)
                /\ state = AWAITING_TWO_CARDS_REVEAL

C3_Witness == DistributeReturned /\ N = 2 /\ Len(cards_deck) = ExtraCards

\* C4: a distribute_cards called after one that returned raises, and leaves the
\* deck, the discard pile, the grids, the state and the cursor as they were.
C4_SecondDistributeRejected ==
    [][(last_call'.op = "distribute" /\ state # AWAITING_DISTRIBUTION)
          => /\ last_call'.err # OK
             /\ UNCHANGED <<cards_deck, discard_pile, players, state,
                            current_player_index>>]_vars

\* distribute_cards raised in a round that is being played.
C4_Witness ==
    /\ last_call.op = "distribute"
    /\ last_call.err # OK
    /\ state = ONGOING

C6_TriggerWriteOnce ==
    [][player_who_triggered_last_turn # None
          => /\ player_who_triggered_last_turn' = player_who_triggered_last_turn
             /\ state = LAST_TURN
             /\ state' = LAST_TURN]_vars

\* The first player triggered the last turn, and the second player has just
\* played a turn that left its grid fully revealed.
C6_Witness ==
    /\ player_who_triggered_last_turn = 0
    /\ current_player_index = 1
    /\ last_call = [op |-> "play", err |-> OK]
    /\ all_cards_revealed(players[2])

\* C7: when no make_player_reveal_two_cards has raised inside its loop, no grid
\* holds a complete column (all cells present and face-up) between two calls of
\* a round that is ONGOING or in its LAST_TURN, whether the calls of
\* make_current_player_play returned or raised.
C7_NoCompleteColumn ==
    (raised.reveals = 0 /\ state \in {ONGOING, LAST_TURN})
        => \A j \in 1 .. N : cols_to_discard(players[j]) = {}

\* A column of a two-column grid has been cleared, the other one is there, and
\* a turn has raised.
C7_Witness ==
    /\ raised.reveals = 0
    /\ raised.calls > 0
    /\ last_call.op = "play"
    /\ players[1].cols = 2
    /\ \E col \in {0, 1} :
           /\ \A row \in 0 .. 2 : players[1].cards[_get_index(players[1], row, col)] = NoCard
           /\ \A row \in 0 .. 2 :
                  players[1].cards[_get_index(players[1], row, 1 - col)] # NoCard

\* C10: make_current_player_play leaves current_player_index alone, whether it
\* returns or raises; next_player sets it to (current_player_index + 1) mod N
\* and changes nothing else of the round.
C10_CursorFrame ==
    [][/\ (last_call'.op = "play" /\ calls' # calls)
            => current_player_index' = current_player_index
       /\ (last_call'.op = "next_player" /\ calls' # calls)
            => /\ current_player_index' = (current_player_index + 1) % N
               /\ UNCHANGED <<players, cards_deck, discard_pile, state,
                              player_who_triggered_last_turn>>]_vars

\* next_player wrapped around to the first of two players, after a turn that
\* raised.
C10_Witness ==
    /\ N = 2
    /\ last_call.op = "next_player"
    /\ current_player_index = 0
    /\ plays[2] > 0
    /\ raised.calls > 0

\* The loop makes no further call: a call raised, or the test of the while
\* failed.
LoopStopped ==
    ~ \/ last_call.op = "new"
      \/ last_call = [op |-> "distribute", err |-> OK]
      \/ last_call = [op |-> "play", err |-> OK]
      \/ /\ last_call \in {[op |-> "reveal_two", err |-> OK],
                           [op |-> "next_player", err |-> OK]}
         /\ state # LAST_TURN

\* C8: in the loop of the deterministic strategy no call raises, no player
\* plays more turns than its grid has cells (12 for the 3x4 grid, 36 in all for
\* three players) and the loop stops only in LAST_TURN.  Every turn adds one to
\* the bounded number of turns, so the loop does stop.
C8_LastTurnWithinGridSize ==
    /\ raised.calls = 0
    /\ state \in {ONGOING, LAST_TURN} =>
           /\ \A j \in 1 .. N : plays[j] <= players[j].rows * players[j].cols
           /\ Turns <= N * players[1].rows * players[1].cols
    /\ LoopStopped => state = LAST_TURN

\* The loop of three players with 3x4 grids has stopped.
C8_Witness ==
    /\ N = TestPlayers
    /\ players[1].cols = DefaultCols
    /\ state = LAST_TURN
    /\ LoopStopped

\* C9 (as claimed): in the loop of players that choose as RandomSkyjoStrategy
\* does, no call raises.
C9_RandomLoopNeverRaises == raised.calls = 0

\* The fields of the round a rejected call must leave alone.
RoundFields == <<cards_deck, discard_pile, players, state, current_player_index,
                 player_who_triggered_last_turn>>

\* C11: make_current_player_play called in AWAITING_DISTRIBUTION or
\* AWAITING_TWO_CARDS_REVEAL, and make_player_reveal_two_cards called in any
\* state but AWAITING_TWO_CARDS_REVEAL, raise ImpossibleGameStateError without
\* having called a strategy, and leave the deck, the discard pile, the grids,
\* the state, the cursor and the trigger as they were.
C11_StateGuards ==
    [][( /\ calls' # calls
         /\ \/ /\ last_call'.op = "play"
               /\ state \in {AWAITING_DISTRIBUTION, AWAITING_TWO_CARDS_REVEAL}
            \/ /\ last_call'.op = "reveal_two"
               /\ state # AWAITING_TWO_CARDS_REVEAL )
          => /\ last_call'.err = ImpossibleGameStateError
             /\ callbacks'.made = 0
             /\ UNCHANGED RoundFields]_vars

\* A reveal was rejected in the last turn, the only call that raised.
C11_Witness ==
    /\ last_call = [op |-> "reveal_two", err |-> ImpossibleGameStateError]
    /\ state = LAST_TURN
    /\ plays[1] = 1
    /\ raised.calls = 1

\* C12: whatever the calls and whether they return or raise, the state changes
\* only from AWAITING_DISTRIBUTION to AWAITING_TWO_CARDS_REVEAL, from there to
\* ONGOING and from there to LAST_TURN: never backwards, never skipping a state,
\* never to ENDED.
C12_StateMovesForward ==
    [][/\ state' # ENDED
       /\ state' # state =>
              <<state, state'>> \in {<<AWAITING_DISTRIBUTION, AWAITING_TWO_CARDS_REVEAL>>,
                                     <<AWAITING_TWO_CARDS_REVEAL, ONGOING>>,
                                     <<ONGOING, LAST_TURN>>}]_vars

\* The round went all the way to LAST_TURN, a call having raised on the way.
C12_Witness ==
    /\ state = LAST_TURN
    /\ raised.calls > 0
    /\ last_call = [op |-> "play", err |-> OK]

\* A call of place_distributed_cards has just been made.
Dealt == last_call'.op = "place_distributed_cards" /\ calls' # calls

\* C13 (as claimed): place_distributed_cards called on a player that holds a
\* grid raises and leaves that grid and its cards as they were; and it makes a
\* grid only of as many cards as the grid has cells, a call with another number
\* of cards raising and leaving the player as it was.
C13_DealRejectedWhenDealt ==
    [][Dealt =>
          /\ players[1] # NoGrid => (last_call'.err # OK /\ players' = players)
          /\ last_call'.err # OK => players' = players
          /\ last_call'.err = OK =>
                 Len(cards_deck) - Len(cards_deck')
                     = players'[1].rows * players'[1].cols]_vars

\* C14 (as claimed): the card make_current_player_play hands to play_card after
\* decide_play returned is the card as it was drawn, whatever the strategy did
\* to its arguments.
C14_StrategyIsolation == callbacks.played_card = callbacks.drawn_card

\* C15 (as claimed): after a distribute_cards that returned and calls that all
\* returned, every card of the discard pile is face-up.
C15_DiscardPileFaceUp ==
    (state # AWAITING_DISTRIBUTION /\ raised.calls = 0)
        => \A k \in DOMAIN discard_pile : discard_pile[k].state = FACE_UP

\* A call of make_current_player_play has just returned.
Played == last_call' = [op |-> "play", err |-> OK] /\ calls' # calls

\* The columns of grid g, all present, that are empty in grid after.
Cleared(g, after) ==
    {col \in 0 .. g.cols - 1 :
        \A row \in 0 .. g.rows - 1 :
            /\ g.cards[_get_index(g, row, col)] # NoCard
            /\ after.cards[_get_index(g, row, col)] = NoCard}

\* C17: a make_current_player_play that returns leaves the discard pile it drew
\* from (or did not draw from) and pushes 1 or 4 cards onto it.  The first is
\* the drawn card (as play_card was handed it), or a card of the grid whose cell now holds the drawn card or
\* is cleared.  It pushes 4 exactly when a column of the current player's grid
\* was cleared: the three other cards are then the cards of that column, all
\* face-up, in the order of the rows 0, 1, 2, the card of row 2 on top; with 1
\* card pushed the grid holds no complete column.
C17_TurnResolution ==
    [][Played =>
        LET g == players[current_player_index + 1]
            after == players'[current_player_index + 1]
            drawn == callbacks'.played_card
            kept == IF cards_deck' # cards_deck THEN discard_pile
                    ELSE Pop(discard_pile)
            pushed == Len(discard_pile') - Len(kept)
            first == discard_pile'[Len(kept) + 1]
            replaced == {i \in DOMAIN g.cards : g.cards[i] = first /\ first # drawn}
        IN  /\ SubSeq(discard_pile', 1, Len(kept)) = kept
            /\ pushed \in {1, 4}
            /\ \/ first = drawn /\ \A i \in DOMAIN g.cards : g.cards[i] # drawn
               \/ /\ Cardinality(replaced) = 1
                  /\ \A i \in replaced : after.cards[i] \in {drawn, NoCard}
            /\ pushed = 4 <=> Cleared(g, after) # {}
            /\ pushed = 1 => cols_to_discard(after) = {}
            /\ pushed = 4 =>
                   /\ Cardinality(Cleared(g, after)) = 1
                   /\ \A col \in Cleared(g, after) : \A row \in 0 .. 2 :
                          LET card == discard_pile'[Len(kept) + 2 + row]
                              cell == _get_index(g, row, col)
                          IN  /\ card.state = FACE_UP
                              /\ card.id = IF cell \in replaced THEN drawn.id
                                            ELSE g.cards[cell].id]_vars

\* A turn replaced the last face-down card of a column by the card drawn from
\* the discard pile: the column was cleared with the drawn card in it.
C17_Witness ==
    /\ last_call = [op |-> "play", err |-> OK]
    /\ Len(discard_pile) >= 4
    /\ \E k \in Len(discard_pile) - 2 .. Len(discard_pile) :
           discard_pile[k].id = callbacks.drawn_card.id
    /\ discard_pile[Len(discard_pile) - 3].state = FACE_DOWN

\* Every column of every grid is whole or empty.
ColumnsWhole ==
    \A j \in 1 .. N : \A col \in 0 .. players[j].cols - 1 :
        \/ \A row \in 0 .. players[j].rows - 1 :
               players[j].cards[_get_index(players[j], row, col)] # NoCard
        \/ \A row \in 0 .. players[j].rows - 1 :
               players[j].cards[_get_index(players[j], row, col)] = NoCard

\* C18: once distribute_cards has returned, after every call, returning or
\* raising, each column of each grid holds all its 3 cards or none (so a grid
\* holds rows*cols - 3k cards), and no call adds a card to a grid.
C18_ColumnsWholeOrEmpty ==
    [][state' # AWAITING_DISTRIBUTION =>
          /\ ColumnsWhole'
          /\ state # AWAITING_DISTRIBUTION =>
                 \A j \in 1 .. N : Present(players'[j]) <= Present(players[j])]_vars

\* The grid of the first player was cleared, the second player holds its
\* column, and a turn has raised.
C18_Witness ==
    /\ N = 2
    /\ Present(players[1]) = 0
    /\ Present(players[2]) = 3
    /\ last_call.op = "play"
    /\ last_call.err # OK

\* The face-up cells of a grid.
FaceUp(g) ==
    Cardinality({i \in DOMAIN g.cards : g.cards[i] # NoCard /\ g.cards[i].state = FACE_UP})

\* C19 (as claimed): when make_player_reveal_two_cards returns, the state is
\* ONGOING and every player holds a full grid with exactly two face-up cards,
\* also when earlier calls of it raised.
C19_TwoFaceUpAfterReveal ==
    last_call = [op |-> "reveal_two", err |-> OK] =>
        /\ state = ONGOING
        /\ \A j \in 1 .. N :
               /\ Present(players[j]) = players[j].rows * players[j].cols
               /\ FaceUp(players[j]) = 2

\* C20: while the round is ONGOING and no call has raised, every grid holds a
\* face-down card and player_who_triggered_last_turn is None; and the state is
\* LAST_TURN exactly when player_who_triggered_last_turn is set.
C20_FaceDownCardWhileOngoing ==
    /\ (state = ONGOING /\ raised.calls = 0) =>
           /\ \A j \in 1 .. N : FaceDownPositions(players[j]) # {}
           /\ player_who_triggered_last_turn = None
    /\ state = LAST_TURN <=> player_who_triggered_last_turn # None

\* A turn cleared a column of a two-column grid and the round goes on.
C20_Witness ==
    /\ state = ONGOING
    /\ raised.calls = 0
    /\ last_call.op = "play"
    /\ players[1].cols = 2
    /\ Present(players[1]) = 3

\* How many cards of a list have the value v.
ValueCount(cards, v) == Cardinality({k \in DOMAIN cards : value(cards[k]) = v})

\* C16: for every seed, the deck generate_deck returns has 150 cards, all
\* face-down: 5 of value -2, 10 of value -1, 15 of value 0 and 10 of each value
\* 1 .. 12.
C16_DeckOfAnySeed ==
    rng.i = 0 =>
        /\ Len(cards_deck) = 150
        /\ ValueCount(cards_deck, 0 - 2) = 5
        /\ ValueCount(cards_deck, 0 - 1) = 10
        /\ ValueCount(cards_deck, 0) = 15
        /\ \A v \in 1 .. 12 : ValueCount(cards_deck, v) = 10
        /\ \A k \in DOMAIN cards_deck :
               /\ value(cards_deck[k]) \in (0 - 2) .. 12
               /\ cards_deck[k].state = FACE_DOWN

\* The deck of a seed other than 0 is shuffled, and its top card is not the
\* card that was made last.
C16_Witness ==
    /\ rng.i = 0
    /\ rng.seed # 0
    /\ Len(cards_deck) = Len(unshuffled_deck)
    /\ cards_deck # unshuffled_deck
    /\ Top(cards_deck) # Top(unshuffled_deck)

====
